---- MODULE Spec2Model ----
(***************************************************************************)
(* Model of scripts/processor.py: the borehole H3 aggregation pipeline.   *)
(* The state is the DuckDB session (the boreholes table, its schema, the   *)
(* per-resolution aggregate tables), the exported JSON artifacts under     *)
(* public/data, and the position of the script.  One action per db.sql     *)
(* call of the __main__ block, from the coordinate transform (line 88)     *)
(* to the completion message (line 118).                                   *)
(***************************************************************************)
EXTENDS Integers, Sequences, FiniteSets, TLC

\* ---------------------------------------------------------------- bounds
\* Largest number of rows ST_READ loads into the boreholes table.
MaxPoints == 2
\* Number of distinct eastings / northings of the source geometries.
MaxE == 3
MaxN == 1

\* ------------------------------------------------------------ SQL values
\* A SQL value is NULL or a one-element tuple holding the value; a geometry
\* is NULL or the pair <<x, y>>.
NULL == <<>>

\* The non-finite DOUBLE a failed projection leaves in a coordinate.
Infinity == 1000000

\* Natural origin of EPSG:27700 (49 N, 2 W), the source reference.
LonOrigin == -2
LatOrigin == 49

\* scales = [0, 1, ..., 15]
scales == <<0, 1, 2, 3, 4, 5, 6, 7, 8, 9, 10, 11, 12, 13, 14, 15>>

Range(s) == {s[k] : k \in DOMAIN s}

IsFinite(g) == g # NULL /\ g[1] # Infinity /\ g[2] # Infinity

\* ST_Transform(geom, 'EPSG:27700', 'EPSG:4326', always_xy := true):
\* NULL stays NULL, a geometry outside the projection's domain comes out
\* non-finite, any other is moved to geographic coordinates, x = lon, y = lat.
ST_Transform(g) ==
    IF g = NULL THEN NULL
    ELSE IF ~IsFinite(g) THEN <<Infinity, Infinity>>
    ELSE <<g[1] + LonOrigin, g[2] + LatOrigin>>

ST_X(g) == IF g = NULL THEN NULL ELSE <<g[1]>>
ST_Y(g) == IF g = NULL THEN NULL ELSE <<g[2]>>

\* The identifier of the resolution-r cell holding (lat, lon).  The cell of
\* resolution r is the part of degree-width 2^(15-r) of its latitude band;
\* the identifier carries the resolution, as an H3 index does.
CellIdCoarsening(lat, lon, r) ==
    (r * 181 + (lat + 90)) * 361 + ((lon + 180) \div (2 ^ r))

CellId(lat, lon, r) ==
    (r * 181 + (lat + 90)) * 361 + ((lon + 180) \div (2 ^ (15 - r)))

\* h3_latlng_to_cell(lat, lon, r): NULL on a NULL argument and on a
\* coordinate out of the function's domain.
h3_latlng_to_cell(lat, lon, r) ==
    IF lat = NULL \/ lon = NULL THEN NULL
    ELSE IF lat[1] = Infinity \/ lon[1] = Infinity THEN NULL
    ELSE <<CellId(lat[1], lon[1], r)>>

\* h3_cell_to_boundary_wkt(cell): a function of the identifier alone.
h3_cell_to_boundary_wkt(cell) ==
    IF cell = NULL THEN NULL ELSE <<"POLYGON", cell[1]>>

\* Column identifiers of the boreholes table.
GeomCol == <<"geom">>
LonCol == <<"lon">>
LatCol == <<"lat">>
H3Col(r) == <<"h3_scale", r>>

\* ALTER TABLE ... ADD COLUMN c: every row gets c = NULL.
AddColumn(rows, c) ==
    [k \in DOMAIN rows |->
        [d \in (DOMAIN rows[k]) \cup {c} |-> IF d = c THEN NULL ELSE rows[k][d]]]

\* COUNT(h3_scale_j) of the group of cell c: the rows of the group whose
\* h3_scale_j is not NULL.
CountStar(rows, col, c) ==
    Cardinality({k \in DOMAIN rows : rows[k][col] = c})

CountColumn(rows, col, c) ==
    Cardinality({k \in DOMAIN rows : rows[k][col] = c /\ rows[k][col] # NULL})

\* SELECT h3_scale_j as cell, h3_cell_to_boundary_wkt(h3_scale_j) as wkt,
\*        COUNT(h3_scale_j) as count FROM boreholes GROUP BY h3_scale_j
UngroupedAggregate(rows, r) ==
    IF rows = <<>>
    THEN {[cell |-> NULL, wkt |-> NULL, count |-> 0]}
    ELSE {[cell |-> c,
           wkt |-> h3_cell_to_boundary_wkt(c),
           count |-> CountColumn(rows, H3Col(r), c)] :
              c \in {rows[k][H3Col(r)] : k \in DOMAIN rows}}

Aggregate(rows, r) ==
    {[cell |-> c,
      wkt |-> h3_cell_to_boundary_wkt(c),
      count |-> CountColumn(rows, H3Col(r), c)] :
         c \in {rows[k][H3Col(r)] : k \in DOMAIN rows}}

\* ---------------------------------------------------------------- state
VARIABLES
    pc,          \* the statement the script executes next
    boreholes,   \* rows of the boreholes table: column identifier -> value
    columns,     \* schema of the boreholes table
    i,           \* position of the tagging loop in scales
    j,           \* position of the aggregation loop in scales
    aggTables,   \* live tables boreholes_h3_scale_r: r -> set of rows
    files,       \* public/data/h3_scale_r.json: <<>> or <<rows>>
    written,     \* resolutions whose COPY completed in this run, in order
    raisedAt     \* the statement that raised, "" while none has

vars == <<pc, boreholes, columns, i, j, aggTables, files, written, raisedAt>>

Resolutions == Range(scales)

\* Geometries ST_READ can deliver: NULL shapes, points of the grid, and
\* points the projection cannot transform.
SourceGeoms ==
    {NULL, <<Infinity, Infinity>>}
        \cup {<<e, n>> : e \in 0 .. MaxE - 1, n \in 0 .. MaxN - 1}

RECURSIVE SeqsUpTo(_, _)
SeqsUpTo(S, n) ==
    IF n = 0 THEN {<<>>}
    ELSE LET shorter == SeqsUpTo(S, n - 1)
         IN shorter \cup {Append(s, x) : s \in shorter, x \in S}

\* An artifact left by an earlier run over another dataset.
StaleFile(r) ==
    <<{[cell |-> <<CellId(0, 0, r)>>,
        wkt |-> h3_cell_to_boundary_wkt(<<CellId(0, 0, r)>>),
        count |-> 1]}>>

Init ==
    /\ pc = "transform"
    /\ \E gs \in SeqsUpTo(SourceGeoms, MaxPoints) :
          boreholes = [k \in DOMAIN gs |-> [d \in {GeomCol} |-> gs[k]]]
    /\ columns = {GeomCol}
    /\ i = 1
    /\ j = 1
    /\ aggTables = << >>
    /\ files \in {[r \in Resolutions |-> <<>>], [r \in Resolutions |-> StaleFile(r)]}
    /\ written = <<>>
    /\ raisedAt = ""

\* ------------------------------------------------------- control flow
\* An exception of db.sql is caught nowhere: the script ends at the
\* statement that raised.
Raise ==
    /\ raisedAt' = pc
    /\ pc' = "aborted"

\* for i in scales: the statement after the body of position k.
AfterTagFirst(k) == "summary"

AfterTag(k) == IF k < Len(scales) THEN "tag" ELSE "summary"

\* for j in scales: the statement after the body of position k.
AfterDropEarly(k) == IF k < Len(scales) - 1 THEN "create" ELSE "finish"

AfterDrop(k) == IF k < Len(scales) THEN "create" ELSE "finish"

\* DROP TABLE BOREHOLES_H3_SCALE_r
KeepTable(tables, r) == tables

DropTable(tables, r) == [t \in (DOMAIN tables) \ {r} |-> tables[t]]

\* CREATE TABLE boreholes_h3_scale_r AS rows
CreateTable(tables, r, rows) ==
    [t \in (DOMAIN tables) \cup {r} |-> IF t = r THEN rows ELSE tables[t]]

\* The artifacts after a COPY of resolution r that raised, having left
\* `outcome` at its path; no other artifact is touched.
RollbackCopy(fs, r, outcome) == [q \in DOMAIN fs |-> <<>>]

FailedCopy(fs, r, outcome) == [fs EXCEPT ![r] = outcome]

\* ------------------------------------------------------------- actions
\* UPDATE boreholes SET geom = ST_Transform(geom, ...)
Transform ==
    /\ pc = "transform"
    /\ boreholes' = [k \in DOMAIN boreholes |->
                        [boreholes[k] EXCEPT ![GeomCol] = ST_Transform(@)]]
    /\ pc' = "addcoords"
    /\ UNCHANGED <<columns, i, j, aggTables, files, written, raisedAt>>

\* The projection library rejects a geometry it cannot transform.
TransformRaise ==
    /\ pc = "transform"
    /\ \E k \in DOMAIN boreholes :
          boreholes[k][GeomCol] # NULL /\ ~IsFinite(boreholes[k][GeomCol])
    /\ Raise
    /\ UNCHANGED <<boreholes, columns, i, j, aggTables, files, written>>

\* ALTER TABLE boreholes ADD COLUMN lon DOUBLE; ... ADD COLUMN lat DOUBLE;
AddCoordColumns ==
    /\ pc = "addcoords"
    /\ boreholes' = AddColumn(AddColumn(boreholes, LonCol), LatCol)
    /\ columns' = columns \cup {LonCol, LatCol}
    /\ pc' = "setcoords"
    /\ UNCHANGED <<i, j, aggTables, files, written, raisedAt>>

\* UPDATE boreholes SET lon = ST_X(geom), lat = ST_Y(geom);
SetCoords ==
    /\ pc = "setcoords"
    /\ boreholes' = [k \in DOMAIN boreholes |->
                        [boreholes[k] EXCEPT ![LonCol] = ST_X(boreholes[k][GeomCol]),
                                             ![LatCol] = ST_Y(boreholes[k][GeomCol])]]
    /\ pc' = "tag"
    /\ UNCHANGED <<columns, i, j, aggTables, files, written, raisedAt>>

\* ALTER TABLE boreholes ADD COLUMN h3_scale_i BIGINT;
\* UPDATE boreholes SET h3_scale_i = h3_latlng_to_cell(lat, lon, i);
TagScale ==
    /\ pc = "tag"
    /\ LET r == scales[i]
           added == AddColumn(boreholes, H3Col(r))
       IN boreholes' = [k \in DOMAIN added |->
                           [added[k] EXCEPT ![H3Col(r)] =
                               h3_latlng_to_cell(added[k][LatCol], added[k][LonCol], r)]]
    /\ columns' = columns \cup {H3Col(scales[i])}
    /\ i' = IF i < Len(scales) THEN i + 1 ELSE i
    /\ pc' = AfterTag(i)
    /\ UNCHANGED <<j, aggTables, files, written, raisedAt>>

\* The indexing function raises on a coordinate out of its domain.
TagRaise ==
    /\ pc = "tag"
    /\ \E k \in DOMAIN boreholes :
          boreholes[k][LatCol] = <<Infinity>> \/ boreholes[k][LonCol] = <<Infinity>>
    /\ Raise
    /\ UNCHANGED <<boreholes, columns, i, j, aggTables, files, written>>

\* print(db.sql("SELECT * FROM BOREHOLES"))
Summary ==
    /\ pc = "summary"
    /\ pc' = "create"
    /\ UNCHANGED <<boreholes, columns, i, j, aggTables, files, written, raisedAt>>

\* CREATE TABLE boreholes_h3_scale_j AS SELECT ... GROUP BY h3_scale_j
CreateAggregate ==
    /\ pc = "create"
    /\ H3Col(scales[j]) \in columns
    /\ scales[j] \notin DOMAIN aggTables
    /\ aggTables' = CreateTable(aggTables, scales[j], Aggregate(boreholes, scales[j]))
    /\ pc' = "copy"
    /\ UNCHANGED <<boreholes, columns, i, j, files, written, raisedAt>>

\* The CREATE TABLE raises: unknown column, existing table, out of memory.
CreateRaise ==
    /\ pc = "create"
    /\ Raise
    /\ UNCHANGED <<boreholes, columns, i, j, aggTables, files, written>>

\* COPY boreholes_h3_scale_j TO './public/data/h3_scale_j.json' (ARRAY)
CopyToJson ==
    /\ pc = "copy"
    /\ files' = [files EXCEPT ![scales[j]] = <<aggTables[scales[j]]>>]
    /\ written' = Append(written, scales[j])
    /\ pc' = "show"
    /\ UNCHANGED <<boreholes, columns, i, j, aggTables, raisedAt>>

\* The COPY raises (disk full, permission): the artifact of this resolution
\* is untouched or holds part of the rows.
CopyRaise ==
    /\ pc = "copy"
    /\ \E outcome \in {files[scales[j]]}
                        \cup {<<part>> : part \in SUBSET aggTables[scales[j]]} :
          files' = FailedCopy(files, scales[j], outcome)
    /\ Raise
    /\ UNCHANGED <<boreholes, columns, i, j, aggTables, written>>

\* print(db.sql("SELECT * FROM BOREHOLES_H3_SCALE_j"))
ShowAggregate ==
    /\ pc = "show"
    /\ pc' = "drop"
    /\ UNCHANGED <<boreholes, columns, i, j, aggTables, files, written, raisedAt>>

\* DROP TABLE BOREHOLES_H3_SCALE_j, then the next j
DropAggregate ==
    /\ pc = "drop"
    /\ aggTables' = DropTable(aggTables, scales[j])
    /\ j' = IF j < Len(scales) THEN j + 1 ELSE j
    /\ pc' = AfterDrop(j)
    /\ UNCHANGED <<boreholes, columns, i, files, written, raisedAt>>

\* print("Processing completed successfully!")
Finish ==
    /\ pc = "finish"
    /\ pc' = "done"
    /\ UNCHANGED <<boreholes, columns, i, j, aggTables, files, written, raisedAt>>

\* The statements that complete.
Proceed ==
    \/ Transform
    \/ AddCoordColumns
    \/ SetCoords
    \/ TagScale
    \/ Summary
    \/ CreateAggregate
    \/ CopyToJson
    \/ ShowAggregate
    \/ DropAggregate
    \/ Finish

\* The statements that raise.
Fail ==
    \/ TransformRaise
    \/ TagRaise
    \/ CreateRaise
    \/ CopyRaise

Next == Proceed \/ Fail

Spec == Init /\ [][Next]_vars

\* ------------------------------------------------------------ properties
RECURSIVE SumCount(_)
SumCount(rows) ==
    IF rows = {} THEN 0
    ELSE LET row == CHOOSE x \in rows : TRUE
         IN row.count + SumCount(rows \ {row})

\* Points whose cell of resolution r is not NULL (once the column is filled).
NonNullPoints(r) == {k \in DOMAIN boreholes : boreholes[k][H3Col(r)] # NULL}

NullPoints(r) == {k \in DOMAIN boreholes : boreholes[k][H3Col(r)] = NULL}

\* The rows of the artifact of resolution r.
Exported(r) == files[r][1]

\* TAGGED: the cell column of every resolution exists and is filled.
Tagged ==
    \A r \in Resolutions :
        /\ H3Col(r) \in columns
        /\ \A k \in DOMAIN boreholes :
              /\ H3Col(r) \in DOMAIN boreholes[k]
              /\ boreholes[k][H3Col(r)] =
                    h3_latlng_to_cell(boreholes[k][LatCol], boreholes[k][LonCol], r)

Aggregating == DOMAIN aggTables # {} \/ written # <<>>

\* C1 - Count conservation: for every resolution, the counts of the rows of
\* the aggregate table, and of the artifact exported from it, sum to the
\* number of points whose cell at that resolution is not NULL; when no cell
\* is NULL the sum is the number of points.
C1_CountConservation ==
    /\ \A r \in DOMAIN aggTables :
          /\ SumCount(aggTables[r]) = Cardinality(NonNullPoints(r))
          /\ NullPoints(r) = {} => SumCount(aggTables[r]) = Len(boreholes)
    /\ \A r \in Range(written) :
          /\ SumCount(Exported(r)) = Cardinality(NonNullPoints(r))
          /\ NullPoints(r) = {} => SumCount(Exported(r)) = Len(boreholes)

\* A resolution was exported from points of which one has a NULL cell and
\* one has not.
C1_Witness ==
    \E r \in Range(written) :
        /\ NullPoints(r) # {}
        /\ NonNullPoints(r) # {}
        /\ SumCount(Exported(r)) = Cardinality(NonNullPoints(r))

\* C2 - Indexing errors are never silent: while the run goes on, a point
\* with a NULL cell is still counted, so the counts of every artifact
\* written in this run sum to the number of points.
C2_NullCellCounted ==
    \A r \in Range(written) : SumCount(Exported(r)) = Len(boreholes)

\* C3 - Sparse index: every row of every aggregate has count >= 1 and a
\* cell no other row of the aggregate has.
C3_SparseIndex ==
    \A r \in DOMAIN aggTables :
        \A row \in aggTables[r] :
            /\ row.count >= 1
            /\ \A other \in aggTables[r] : other.cell = row.cell => other = row

\* C4 - Transform errors are never silent: once a resolution is being
\* aggregated, every row of the point relation has a lon and a lat.
C4_NoNullCoordinates ==
    Aggregating =>
        \A k \in DOMAIN boreholes :
            boreholes[k][LonCol] # NULL /\ boreholes[k][LatCol] # NULL

\* C5 - Pipeline ordering: an aggregate table exists, or an artifact was
\* written, only when the cell columns of all 16 resolutions exist and are
\* filled.
C5_TaggedBeforeAggregation ==
    (Aggregating \/ pc \in {"copy", "show", "drop", "finish", "done"}) => Tagged

\* The first aggregate exists, over a non-empty tagged relation.
C5_Witness ==
    /\ pc = "copy"
    /\ DOMAIN aggTables = {scales[1]}
    /\ boreholes # <<>>
    /\ Tagged

\* C6 - At most one aggregate table is live in every state, and a table is
\* dropped only after its artifact was written.
C6_OneAggregateAtATime ==
    /\ [](Cardinality(DOMAIN aggTables) <= 1)
    /\ [][\A r \in DOMAIN aggTables :
             r \notin DOMAIN aggTables' => r \in Range(written)]_vars

\* The second aggregate is live after the first was written and dropped.
C6_Witness ==
    /\ DOMAIN aggTables = {scales[2]}
    /\ written = <<scales[1]>>

\* C7 - Fail-fast without rollback: a run whose aggregation or export of
\* position j raised has stopped for good, wrote just the artifacts of the
\* positions before j, and these hold the aggregates they were written
\* with; an artifact written in this run is never changed afterwards.
C7_FailFastNoRollback ==
    /\ [](pc = "aborted" /\ raisedAt \in {"create", "copy"} =>
             /\ written = SubSeq(scales, 1, j - 1)
             /\ \A k \in 1 .. j - 1 :
                   files[scales[k]] = <<Aggregate(boreholes, scales[k])>>)
    /\ [][/\ pc = "aborted" => pc' = "aborted"
          /\ \A r \in Range(written) : files'[r] = files[r]]_vars

\* The export of the third resolution raised over a non-empty relation.
C7_Witness ==
    /\ pc = "aborted"
    /\ raisedAt = "copy"
    /\ written = <<scales[1], scales[2]>>
    /\ boreholes # <<>>

\* C8 - DONE only after all 16 exports: in DONE the artifacts written in
\* this run are those of 0..15, each once and in ascending order, every
\* artifact holds its aggregate and no aggregate table is left.
C8_DoneAfterAllExports ==
    pc = "done" =>
        /\ written = scales
        /\ DOMAIN aggTables = {}
        /\ \A r \in Resolutions : files[r] = <<Aggregate(boreholes, r)>>

C8_Witness ==
    /\ pc = "done"
    /\ boreholes # <<>>
    /\ written = scales

\* C9 - Empty input: over an empty point relation no statement raises on
\* the data, a statement that completes is enabled until DONE, every
\* aggregate has zero rows and every artifact written is the empty array.
C9_EmptyInput ==
    boreholes = <<>> =>
        /\ raisedAt \notin {"transform", "tag"}
        /\ pc \notin {"done", "aborted"} => ENABLED Proceed
        /\ \A r \in DOMAIN aggTables : aggTables[r] = {}
        /\ \A r \in Range(written) : files[r] = <<{}>>
        /\ pc = "done" => \A r \in Resolutions : files[r] = <<{}>>

C9_Witness ==
    /\ pc = "done"
    /\ boreholes = <<>>
    /\ \A r \in Resolutions : files[r] = <<{}>>

\* C10 - Monotonic cell growth: of two consecutive resolutions exported in
\* this run, the finer has at least as many rows as the coarser.
C10_MonotonicCellGrowth ==
    \A r \in Resolutions :
        (r \in Range(written) /\ r + 1 \in Range(written)) =>
            Cardinality(Exported(r + 1)) >= Cardinality(Exported(r))

\* The finest resolution separates points the coarsest holds in one cell.
C10_Witness ==
    /\ pc = "done"
    /\ Cardinality(Exported(scales[Len(scales)])) > Cardinality(Exported(scales[1]))

====
